---- MODULE Spec2Model ----
(***************************************************************************)
(* A model of goldga's snapshot storage (storage.go): SingleStorage, one   *)
(* file per snapshot, and SuiteStorage, many named snapshots in one TOML   *)
(* document.  File contents, keys and payloads are sequences of byte       *)
(* values, so that the text written by SuiteStorage.Write and the text     *)
(* accepted by toml.DecodeReader are two different things that have to     *)
(* agree.                                                                  *)
(***************************************************************************)
EXTENDS Integers, Sequences, FiniteSets, TLC

(***************************************************************************)
(* Bytes that have a meaning in the format.                                *)
(***************************************************************************)
NUL == 0
TAB == 9
LF == 10
CR == 13
SP == 32
DQ == 34
HASH == 35
SQ == 39
EQ == 61
LBRACKET == 91
BACKSLASH == 92
RBRACKET == 93
DEL == 127

\* "# Generated by goldga. DO NOT EDIT."
headerComment ==
    <<35, 32, 71, 101, 110, 101, 114, 97, 116, 101, 100, 32, 98, 121, 32,
      103, 111, 108, 100, 103, 97, 46, 32, 68, 79, 32, 78, 79, 84, 32, 69,
      68, 73, 84, 46>>

\* "[snapshots]"
headerTable == <<91, 115, 110, 97, 112, 115, 104, 111, 116, 115, 93>>

\* the two header lines of SuiteStorage.Write, in order
lines == <<headerComment, headerTable>>

\* "snapshots", the toml tag of suiteData.Snapshots
snapshotsTag == <<115, 110, 97, 112, 115, 104, 111, 116, 115>>

(***************************************************************************)
(* Inputs.  Snapshot names and payloads the callers pass.                  *)
(***************************************************************************)
\* "caseA"
caseA == <<99, 97, 115, 101, 65>>
\* "caseB"
caseB == <<99, 97, 115, 101, 66>>
\* c" : a name with a byte that %q has to escape; it sorts before "caseA"
caseQ == <<99, 34>>

Names == {caseA, caseB, caseQ}

\* "", "x", "hello\nworld", "x'", "'''", "\x00"
Payloads ==
    { <<>>,
      <<120>>,
      <<104, 101, 108, 108, 111, 10, 119, 111, 114, 108, 100>>,
      <<120, 39>>,
      <<39, 39, 39>>,
      <<0>> }

(***************************************************************************)
(* Errors.  A Go error is modelled as its chain, outermost message first;  *)
(* fmt.Errorf("...: %w", err) puts a message in front of the chain and     *)
(* errors.Is looks for the target anywhere in it.  nil is the empty chain. *)
(***************************************************************************)
nil == <<>>

ErrFileNotFound == "file does not exist"

Errorf(msg, err) == <<msg>> \o err

Is(err, target) == \E i \in 1..Len(err) : err[i] = target

\* an error of the filesystem or of the decoder that is not ErrFileNotFound
ioError == <<"input/output error">>

(***************************************************************************)
(* Byte strings.                                                           *)
(***************************************************************************)
At(s, i) == IF i >= 1 /\ i <= Len(s) THEN s[i] ELSE -1

\* the first index >= i of s whose byte is not in skip, Len(s)+1 if none
FirstNotIn(s, i, skip) ==
    CHOOSE j \in i..(Len(s) + 1) :
        /\ j = Len(s) + 1 \/ s[j] \notin skip
        /\ \A k \in i..(j - 1) : s[k] \in skip

\* the first index >= i of s whose byte is in stop, Len(s)+1 if none
FirstIn(s, i, stop) ==
    CHOOSE j \in i..(Len(s) + 1) :
        /\ j = Len(s) + 1 \/ s[j] \in stop
        /\ \A k \in i..(j - 1) : s[k] \notin stop

\* sort.Strings compares byte by byte, a proper prefix first
StrLess(a, b) ==
    \E i \in 1..(Len(b)) :
        /\ \A j \in 1..(i - 1) : j <= Len(a) /\ a[j] = b[j]
        /\ i > Len(a) \/ a[i] < b[i]

RECURSIVE Concat(_)
Concat(ss) == IF ss = <<>> THEN <<>> ELSE Head(ss) \o Concat(Tail(ss))

(***************************************************************************)
(* Encoding: the text SuiteStorage.Write prints.                           *)
(***************************************************************************)
\* the escape letter strconv.Quote prints after a backslash for byte c, 0 if none
quoteEscape(c) ==
    CASE c = DQ -> DQ
      [] c = BACKSLASH -> BACKSLASH
      [] c = 7 -> 97
      [] c = 8 -> 98
      [] c = 12 -> 102
      [] c = LF -> 110
      [] c = CR -> 114
      [] c = TAB -> 116
      [] c = 11 -> 118
      [] OTHER -> 0

hexDigit(d) == IF d < 10 THEN 48 + d ELSE 87 + d

\* one byte of a name as the verb %q prints it
quoteByte(c) ==
    IF quoteEscape(c) # 0 THEN <<BACKSLASH, quoteEscape(c)>>
    ELSE IF c >= SP /\ c < DEL THEN <<c>>
    ELSE <<BACKSLASH, 120, hexDigit(c \div 16), hexDigit(c % 16)>>

\* the name between double quotes as it is, the verb "%s" in quotes
QuoteRaw(k) == <<DQ>> \o k \o <<DQ>>

\* the verb %q: the name between double quotes, escaped
Quote(k) == <<DQ>> \o Concat([i \in 1..Len(k) |-> quoteByte(k[i])]) \o <<DQ>>

\* fmt.Fprintln(w, line)
Fprintln(line) == line \o <<LF>>

\* the entry with the closing delimiter on a line of its own
FprintfLine(k, v) ==
    <<DQ>> \o Concat([i \in 1..Len(k) |-> quoteByte(k[i])]) \o <<DQ>>
       \o <<SP, EQ, SP, SQ, SQ, SQ, LF>> \o v \o <<LF, SQ, SQ, SQ, LF>>

\* fmt.Fprintf(w, "%q = '''\n%s'''\n", k, v)
Fprintf(k, v) ==
    Quote(k) \o <<SP, EQ, SP, SQ, SQ, SQ, LF>> \o v \o <<SQ, SQ, SQ, LF>>

\* the keys the other way round
RECURSIVE SortStringsDesc(_)
SortStringsDesc(S) ==
    IF S = {} THEN <<>>
    ELSE LET m == CHOOSE k \in S : \A o \in S : o = k \/ StrLess(o, k)
         IN <<m>> \o SortStringsDesc(S \ {m})

\* suiteData.sortSnapshotKeys: the keys of the map, ascending
RECURSIVE SortStrings(_)
SortStrings(S) ==
    IF S = {} THEN <<>>
    ELSE LET m == CHOOSE k \in S : \A o \in S : o = k \/ StrLess(k, o)
         IN <<m>> \o SortStrings(S \ {m})

sortSnapshotKeys(snapshots) == SortStrings(DOMAIN snapshots)

\* what the bufio.Writer of SuiteStorage.Write holds when Flush is called:
\* the header lines, then one entry per key.  The documents of this model
\* are far below bufio's buffer size, so no Fprint reaches the file before
\* Flush and none of them can fail.
Buffered(snapshots) ==
    LET keys == sortSnapshotKeys(snapshots)
    IN Concat([i \in 1..Len(lines) |-> Fprintln(lines[i])])
       \o Concat([i \in 1..Len(keys) |-> Fprintf(keys[i], snapshots[keys[i]])])

\* newSuiteData: a document with an empty, non-nil map
newSuiteData == <<>>

\* data.Snapshots[name] = string(input)
Put(snapshots, name, input) ==
    [k \in DOMAIN snapshots \cup {name} |->
        IF k = name THEN input ELSE snapshots[k]]

(***************************************************************************)
(* Decoding: toml.DecodeReader(file, &data) into suiteData.  The decoder   *)
(* is the BurntSushi/toml library, which storage.go imports; it is         *)
(* modelled on the part of TOML that the files of this model can hold:     *)
(* comments, blank lines, [table] headers with a bare name, bare and       *)
(* double-quoted keys, and values that are literal strings, '...' or       *)
(* multi-line.  Anything else fails to decode here, and no reachable file  *)
(* holds anything else that TOML would accept.                             *)
(*                                                                         *)
(* v1 tells the two generations of the library apart.  Before TOML 1.0     *)
(* (v1 = FALSE) a multi-line literal string ends at the first ''' and only *)
(* the byte 0, which the lexer takes for the end of input, is refused.     *)
(* From TOML 1.0 on (v1 = TRUE) one or two quotes directly before the      *)
(* closing ''' belong to the string, and control characters are refused.   *)
(***************************************************************************)
isControl(c) == (c >= 0 /\ c < SP /\ c \notin {TAB, LF, CR}) \/ c = DEL

refused(s, v1) ==
    IF v1
    THEN \E i \in 1..Len(s) :
            isControl(s[i]) \/ (s[i] = CR /\ At(s, i + 1) # LF)
    ELSE \E i \in 1..Len(s) : s[i] = NUL

\* A-Z a-z 0-9 _ -
bareKeyChars == (65..90) \cup (97..122) \cup (48..57) \cup {95, 45}

\* the byte a backslash escape of a basic string stands for, -1 if invalid
unescape(c) ==
    CASE c = DQ -> DQ
      [] c = BACKSLASH -> BACKSLASH
      [] c = 98 -> 8
      [] c = 102 -> 12
      [] c = 110 -> LF
      [] c = 114 -> CR
      [] c = 116 -> TAB
      [] OTHER -> -1

\* a basic string from index i, just after its opening quote
RECURSIVE lexString(_, _)
lexString(s, i) ==
    LET c == At(s, i)
        bad == [ok |-> FALSE, val |-> <<>>, next |-> 0]
    IN IF c = -1 \/ c = LF THEN bad
       ELSE IF c = DQ THEN [ok |-> TRUE, val |-> <<>>, next |-> i + 1]
       ELSE IF c = BACKSLASH
       THEN IF unescape(At(s, i + 1)) = -1 THEN bad
            ELSE LET r == lexString(s, i + 2)
                 IN [r EXCEPT !.val = <<unescape(At(s, i + 1))>> \o @]
       ELSE LET r == lexString(s, i + 1)
            IN [r EXCEPT !.val = <<c>> \o @]

\* a key from index i: "..." or bare
lexKey(s, i) ==
    IF At(s, i) = DQ THEN lexString(s, i + 1)
    ELSE LET e == FirstNotIn(s, i, bareKeyChars)
         IN [ok |-> e > i, val |-> SubSeq(s, i, e - 1), next |-> e]

isTriple(s, i) == At(s, i) = SQ /\ At(s, i + 1) = SQ /\ At(s, i + 2) = SQ

\* parse.go stripFirstNewline: the newline right after the opening '''
stripFirstNewline(s) ==
    IF Len(s) > 0 /\ s[1] = LF THEN Tail(s)
    ELSE IF Len(s) > 1 /\ s[1] = CR /\ s[2] = LF THEN Tail(Tail(s))
    ELSE s

\* a multi-line literal string from index i, just after its opening '''
lexMultilineRawString(s, i, v1) ==
    LET j == CHOOSE j \in i..(Len(s) + 1) :
                 /\ j = Len(s) + 1 \/ isTriple(s, j)
                 /\ \A k \in i..(j - 1) : ~isTriple(s, k)
    IN IF j = Len(s) + 1 THEN [ok |-> FALSE, val |-> <<>>, next |-> 0]
       ELSE LET extra == IF ~v1 \/ At(s, j + 3) # SQ THEN 0
                         ELSE IF At(s, j + 4) # SQ THEN 1
                         ELSE 2
            IN [ok |-> TRUE,
                val |-> stripFirstNewline(SubSeq(s, i, j - 1 + extra)),
                next |-> j + 3 + extra]

\* a literal string from index i, just after its opening quote
lexRawString(s, i) ==
    LET e == FirstIn(s, i, {SQ, LF})
    IN [ok |-> At(s, e) = SQ, val |-> SubSeq(s, i, e - 1), next |-> e + 1]

\* a value from index i
lexValue(s, i, v1) ==
    IF isTriple(s, i) THEN lexMultilineRawString(s, i + 3, v1)
    ELSE IF At(s, i) = SQ THEN lexRawString(s, i + 1)
    ELSE [ok |-> FALSE, val |-> <<>>, next |-> 0]

\* after a header or a value: blanks, then a comment, a newline or the end
\* of input.  The index to go on from, 0 if something else follows.
lexLineEnd(s, i) ==
    LET p == FirstNotIn(s, i, {SP, TAB})
        c == At(s, p)
    IN IF c = -1 \/ c = LF THEN p
       ELSE IF c = CR /\ At(s, p + 1) = LF THEN p
       ELSE IF c = HASH THEN FirstIn(s, p, {LF})
       ELSE 0

decodeError == [ok |-> FALSE, snapshots |-> <<>>, keys |-> <<>>]

\* the top level of the document from index i; d is what was decoded so
\* far, table the table the next key belongs to
RECURSIVE lexTop(_, _, _, _, _)
lexTop(s, i, d, table, v1) ==
    LET p == FirstNotIn(s, i, {SP, TAB, LF, CR})
        c == At(s, p)
    IN IF c = -1 THEN d
       ELSE IF c = HASH THEN lexTop(s, FirstIn(s, p, {LF}), d, table, v1)
       ELSE IF c = LBRACKET
       THEN LET k == lexKey(s, p + 1)
                e == IF k.ok /\ At(s, k.next) = RBRACKET
                     THEN lexLineEnd(s, k.next + 1) ELSE 0
            IN IF e = 0 \/ At(s, p + 1) = DQ THEN decodeError
               ELSE lexTop(s, e, d,
                           IF k.val = snapshotsTag THEN "snapshots" ELSE "other",
                           v1)
       ELSE LET k == lexKey(s, p)
                q == IF k.ok THEN FirstNotIn(s, k.next, {SP, TAB}) ELSE 0
                v == IF k.ok /\ At(s, q) = EQ
                     THEN lexValue(s, FirstNotIn(s, q + 1, {SP, TAB}), v1)
                     ELSE [ok |-> FALSE, val |-> <<>>, next |-> 0]
                e == IF v.ok THEN lexLineEnd(s, v.next) ELSE 0
            IN IF e = 0 THEN decodeError
               ELSE IF table = "snapshots"
               THEN IF k.val \in DOMAIN d.snapshots THEN decodeError
                    ELSE lexTop(s, e,
                                [d EXCEPT !.snapshots = Put(@, k.val, v.val),
                                          !.keys = Append(@, k.val)],
                                table, v1)
               ELSE IF table = "root" /\ k.val = snapshotsTag THEN decodeError
               ELSE lexTop(s, e, d, table, v1)

\* toml.DecodeReader(file, &data) on the bytes of the file, data being
\* newSuiteData(): ok, the decoded map, and its keys in the order of the file
DecodeReader(s, v1) ==
    IF refused(s, v1) THEN decodeError
    ELSE lexTop(s, 1, [ok |-> TRUE, snapshots |-> newSuiteData, keys |-> <<>>],
                "root", v1)

(***************************************************************************)
(* State.                                                                  *)
(*   fs      the filesystem at Path: whether the parent directory and the  *)
(*           file exist, and the bytes of the file                         *)
(*   tomlV1  which generation of the decoder the build links               *)
(*   ret     the last call that returned: the method, the Name of the      *)
(*           store, the bytes passed in, and the ([]byte, error) result;   *)
(*           data is <<>> for a nil slice and <<b>> for the slice b        *)
(*   faults  how many filesystem calls have failed so far                  *)
(*   w       the two concurrent writers of SpecConc                        *)
(***************************************************************************)
VARIABLES fs, tomlV1, ret, faults, w

vars == <<fs, tomlV1, ret, faults, w>>

\* at most this many filesystem calls fail in one behaviour of SpecFault
MaxFaults == 1

\* the filesystem calls that can be made to fail
Faults == {"exists", "open", "read", "mkdir", "create", "write"}

\* the inputs of SpecFault
FaultNames == {caseA, caseB}

FaultPayloads == {<<120>>, <<39, 39, 39>>}

noFile == [dir |-> FALSE, exists |-> FALSE, data |-> <<>>]

Returned(op, name, input, data, err) ==
    [op |-> op, name |-> name, input |-> input, data |-> data, err |-> err]

(***************************************************************************)
(* The filesystem calls.  fault names the call that fails, if any.         *)
(***************************************************************************)
\* s.Fs.MkdirAll(filepath.Dir(s.Path), os.ModePerm)
MkdirAll(f, fault) ==
    IF fault = "mkdir" THEN [fs |-> f, err |-> ioError]
    ELSE [fs |-> [f EXCEPT !.dir = TRUE], err |-> nil]

\* s.Fs.Create(s.Path): the file exists and is empty afterwards
Create(f, fault) ==
    IF fault = "create" THEN [fs |-> f, err |-> ioError]
    ELSE [fs |-> [f EXCEPT !.exists = TRUE, !.data = <<>>], err |-> nil]

\* the bytes of the file after p is written at its start, through a handle
\* that was opened by Create and has not been written to yet
WriteAt0(data, p) == p \o SubSeq(data, Len(p) + 1, Len(data))

\* the outcomes of writing buf through such a handle: all of it, or, when
\* the write fails, any proper prefix of it
FileWrite(f, buf, fault) ==
    IF fault = "write" /\ buf # <<>>
    THEN {[fs |-> [f EXCEPT !.data = WriteAt0(@, SubSeq(buf, 1, n))],
           err |-> ioError] : n \in 0..(Len(buf) - 1)}
    ELSE {[fs |-> [f EXCEPT !.data = WriteAt0(@, buf)], err |-> nil]}

\* afero.Exists(s.Fs, s.Path)
Exists(f, fault) ==
    IF fault = "exists" THEN [exists |-> FALSE, err |-> ioError]
    ELSE [exists |-> f.exists, err |-> nil]

(***************************************************************************)
(* SingleStorage                                                           *)
(***************************************************************************)
\* SingleStorage.Read: the ([]byte, error) it returns
SingleStorageRead(f, fault) ==
    LET err == IF ~f.exists THEN <<"open", ErrFileNotFound>>
               ELSE IF fault \in {"open", "read"} THEN ioError
               ELSE nil
    IN IF err # nil
       THEN [data |-> <<>>, err |-> Errorf("failed to read file", err)]
       ELSE [data |-> <<f.data>>, err |-> nil]

\* SingleStorage.Write: the filesystem it can leave and the error it returns
SingleStorageWrite(f, data, fault) ==
    LET m == MkdirAll(f, fault)
        c == Create(m.fs, fault)
    IN IF m.err # nil
       THEN {[fs |-> m.fs, err |-> Errorf("failed to create directories", m.err)]}
       ELSE IF c.err # nil
       THEN {[fs |-> c.fs, err |-> Errorf("failed to write file", c.err)]}
       ELSE {[fs |-> o.fs,
              err |-> IF o.err = nil THEN nil
                      ELSE Errorf("failed to write file", o.err)] :
                o \in FileWrite(c.fs, data, fault)}

(***************************************************************************)
(* SuiteStorage                                                            *)
(***************************************************************************)
\* openDecode reporting a file that does not decode as a file that is absent
openDecodeAbsent(f, v1, fault) ==
    IF fault = "open"
    THEN [data |-> <<>>, err |-> Errorf("failed to open file", ioError)]
    ELSE IF fault = "read"
    THEN [data |-> <<>>, err |-> Errorf("toml decode error", ioError)]
    ELSE LET d == DecodeReader(f.data, v1)
         IN IF ~d.ok
            THEN [data |-> <<>>, err |-> <<ErrFileNotFound>>]
            ELSE [data |-> d.snapshots, err |-> nil]

\* getSuiteData from s.Fs.Open on: the file exists
openDecode(f, v1, fault) ==
    IF fault = "open"
    THEN [data |-> <<>>, err |-> Errorf("failed to open file", ioError)]
    ELSE IF fault = "read"
    THEN [data |-> <<>>, err |-> Errorf("toml decode error", ioError)]
    ELSE LET d == DecodeReader(f.data, v1)
         IN IF ~d.ok
            THEN [data |-> <<>>,
                  err |-> Errorf("toml decode error", <<"toml: cannot decode">>)]
            ELSE [data |-> d.snapshots, err |-> nil]

\* SuiteStorage.getSuiteData
getSuiteData(f, v1, fault) ==
    LET e == Exists(f, fault)
    IN IF e.err # nil
       THEN [data |-> <<>>, err |-> Errorf("failed to check file exist", e.err)]
       ELSE IF ~e.exists THEN [data |-> <<>>, err |-> <<ErrFileNotFound>>]
       ELSE openDecode(f, v1, fault)

\* lookup without the ", ok": a key that is missing reads as the empty value
lookupZero(snapshots, name) ==
    [data |-> <<IF name \in DOMAIN snapshots THEN snapshots[name] ELSE <<>>>>,
     err |-> nil]

\* the lookup of SuiteStorage.Read in the decoded map
lookup(snapshots, name) ==
    IF name \in DOMAIN snapshots
    THEN [data |-> <<snapshots[name]>>, err |-> nil]
    ELSE [data |-> <<>>, err |-> <<ErrFileNotFound>>]

\* SuiteStorage.Read: the ([]byte, error) it returns
SuiteStorageRead(f, v1, name, fault) ==
    LET g == getSuiteData(f, v1, fault)
    IN IF g.err # nil THEN [data |-> <<>>, err |-> g.err]
       ELSE lookup(g.data, name)

\* loaded going on from an empty document whatever the file holds
loadedFresh(g) ==
    IF g.err # nil /\ ~Is(g.err, ErrFileNotFound)
    THEN [err |-> g.err, data |-> <<>>]
    ELSE [err |-> nil, data |-> newSuiteData]

\* loaded taking every error of getSuiteData for an absent file
loadedSwallow(g) ==
    IF g.err # nil THEN [err |-> nil, data |-> newSuiteData]
    ELSE [err |-> nil, data |-> g.data]

\* what SuiteStorage.Write makes of the result g of getSuiteData: the error
\* it returns at once, or the document it goes on with
loaded(g) ==
    IF g.err # nil
    THEN IF ~Is(g.err, ErrFileNotFound)
         THEN [err |-> g.err, data |-> <<>>]
         ELSE [err |-> nil, data |-> newSuiteData]
    ELSE [err |-> nil, data |-> g.data]

\* SuiteStorage.Write from MkdirAll on, data being the document to persist
persist(f, data, fault) ==
    LET m == MkdirAll(f, fault)
        c == Create(m.fs, fault)
    IN IF m.err # nil
       THEN {[fs |-> m.fs, err |-> Errorf("failed to create directories", m.err)]}
       ELSE IF c.err # nil
       THEN {[fs |-> c.fs, err |-> Errorf("failed to create file", c.err)]}
       ELSE {[fs |-> o.fs,
              err |-> IF o.err = nil THEN nil ELSE Errorf("flush error", o.err)] :
                o \in FileWrite(c.fs, Buffered(data), fault)}

\* SuiteStorage.Write: the filesystem it can leave and the error it returns
SuiteStorageWrite(f, v1, name, input, fault) ==
    LET l == loaded(getSuiteData(f, v1, fault))
    IN IF l.err # nil THEN {[fs |-> f, err |-> l.err]}
       ELSE persist(f, Put(l.data, name, input), fault)

(***************************************************************************)
(* The calls as actions.  A call made with a fault takes one of MaxFaults. *)
(***************************************************************************)
arm(fault) ==
    /\ fault # "none" => faults < MaxFaults
    /\ faults' = IF fault = "none" THEN faults ELSE faults + 1

SingleRead(fault) ==
    /\ arm(fault)
    /\ LET r == SingleStorageRead(fs, fault)
       IN ret' = Returned("SingleStorage.Read", <<>>, <<>>, r.data, r.err)
    /\ UNCHANGED <<fs, tomlV1, w>>

SingleWrite(data, fault) ==
    /\ arm(fault)
    /\ \E o \in SingleStorageWrite(fs, data, fault) :
          /\ fs' = o.fs
          /\ ret' = Returned("SingleStorage.Write", <<>>, data, <<>>, o.err)
    /\ UNCHANGED <<tomlV1, w>>

SuiteRead(name, fault) ==
    /\ arm(fault)
    /\ LET r == SuiteStorageRead(fs, tomlV1, name, fault)
       IN ret' = Returned("SuiteStorage.Read", name, <<>>, r.data, r.err)
    /\ UNCHANGED <<fs, tomlV1, w>>

SuiteWrite(name, input, fault) ==
    /\ arm(fault)
    /\ \E o \in SuiteStorageWrite(fs, tomlV1, name, input, fault) :
          /\ fs' = o.fs
          /\ ret' = Returned("SuiteStorage.Write", name, input, <<>>, o.err)
    /\ UNCHANGED <<tomlV1, w>>

(***************************************************************************)
(* Sequential use: one call at a time, no filesystem call fails.           *)
(***************************************************************************)
Writers == {1, 2}

idleWriters ==
    [p \in Writers |->
        [pc |-> "idle", input |-> <<>>, data |-> <<>>, err |-> nil,
         during |-> FALSE]]

Init ==
    /\ fs = noFile
    /\ tomlV1 \in BOOLEAN
    /\ ret = Returned("none", <<>>, <<>>, <<>>, nil)
    /\ faults = 0
    /\ w = idleWriters

Next ==
    \/ SingleRead("none")
    \/ \E data \in Payloads : SingleWrite(data, "none")
    \/ \E name \in Names : SuiteRead(name, "none")
    \/ \E name \in Names, input \in Payloads : SuiteWrite(name, input, "none")

Spec == Init /\ [][Next]_vars

(***************************************************************************)
(* Failing filesystem calls: the same calls, any one filesystem call of a  *)
(* call may fail, MaxFaults times in a behaviour.                          *)
(***************************************************************************)
NextFault ==
    \/ \E fault \in Faults \cup {"none"} : SingleRead(fault)
    \/ \E data \in FaultPayloads, fault \in Faults \cup {"none"} :
          SingleWrite(data, fault)
    \/ \E name \in FaultNames, fault \in Faults \cup {"none"} :
          SuiteRead(name, fault)
    \/ \E name \in FaultNames, input \in FaultPayloads,
          fault \in Faults \cup {"none"} :
          SuiteWrite(name, input, fault)

SpecFault == Init /\ [][NextFault]_vars

(***************************************************************************)
(* Concurrent use: two SuiteStorage values with the same Path and Fs and   *)
(* different Names, each running Write once, with nothing serializing      *)
(* them.  A step is one filesystem call; what a writer holds between two   *)
(* steps is in w.  during is history: whether the call began while the     *)
(* other writer's call was under way.                                      *)
(***************************************************************************)
WriterName(p) == IF p = 1 THEN caseA ELSE caseB

ConcPayloads ==
    { <<120>>, <<104, 101, 108, 108, 111, 10, 119, 111, 114, 108, 100>> }

Other(p) == 3 - p

underWay(p) == w[p].pc \notin {"idle", "done"}

\* getSuiteData up to afero.Exists.  A file that is not there makes
\* getSuiteData return ErrFileNotFound, and Write goes on from that.
wExists(p, input) ==
    /\ w[p].pc = "idle"
    /\ LET e == Exists(fs, "none")
           l == loaded([data |-> <<>>, err |-> <<ErrFileNotFound>>])
       IN w' = [w EXCEPT ![p] =
                   [pc |-> IF e.exists THEN "open" ELSE "mkdir",
                    input |-> input,
                    data |-> IF e.exists THEN <<>>
                             ELSE Put(l.data, WriterName(p), input),
                    err |-> nil,
                    during |-> underWay(Other(p))]]
    /\ UNCHANGED <<fs, tomlV1, ret, faults>>

\* getSuiteData from s.Fs.Open on, then data.Snapshots[s.Name] = string(input)
wDecode(p) ==
    /\ w[p].pc = "open"
    /\ LET l == loaded(openDecode(fs, tomlV1, "none"))
       IN w' = [w EXCEPT ![p] =
                   IF l.err # nil
                   THEN [@ EXCEPT !.pc = "done", !.err = l.err]
                   ELSE [@ EXCEPT !.pc = "mkdir",
                                  !.data = Put(l.data, WriterName(p), w[p].input)]]
    /\ UNCHANGED <<fs, tomlV1, ret, faults>>

wMkdirAll(p) ==
    /\ w[p].pc = "mkdir"
    /\ fs' = MkdirAll(fs, "none").fs
    /\ w' = [w EXCEPT ![p].pc = "create"]
    /\ UNCHANGED <<tomlV1, ret, faults>>

wCreate(p) ==
    /\ w[p].pc = "create"
    /\ fs' = Create(fs, "none").fs
    /\ w' = [w EXCEPT ![p].pc = "flush"]
    /\ UNCHANGED <<tomlV1, ret, faults>>

\* the header and the entries go to the bufio.Writer; w.Flush() writes them
wFlush(p) ==
    /\ w[p].pc = "flush"
    /\ \E o \in FileWrite(fs, Buffered(w[p].data), "none") : fs' = o.fs
    /\ w' = [w EXCEPT ![p].pc = "done"]
    /\ UNCHANGED <<tomlV1, ret, faults>>

\* the third name may have been written before the two writers start
InitConc ==
    /\ fs \in {noFile,
               [dir |-> TRUE, exists |-> TRUE,
                data |-> Buffered(Put(newSuiteData, caseQ, <<120>>))]}
    /\ tomlV1 \in BOOLEAN
    /\ ret = Returned("none", <<>>, <<>>, <<>>, nil)
    /\ faults = 0
    /\ w = idleWriters

NextConc ==
    \E p \in Writers :
        \/ \E input \in ConcPayloads : wExists(p, input)
        \/ wDecode(p)
        \/ wMkdirAll(p)
        \/ wCreate(p)
        \/ wFlush(p)

SpecConc == InitConc /\ [][NextConc]_vars

(***************************************************************************)
(* Properties.                                                             *)
(***************************************************************************)
\* the document the file at Path decodes to
current == DecodeReader(fs.data, tomlV1)

\* the ([]byte, error) of a Read that succeeds with the bytes v
value(v) == [data |-> <<v>>, err |-> nil]

\* v contains the delimiter '''
HasTriple(v) == \E i \in 1..Len(v) : isTriple(v, i)

wroteSuite == ret.op = "SuiteStorage.Write" /\ ret.err = nil

\* the names of this model in ascending byte order: c" caseA caseB
Rank(k) == CASE k = caseQ -> 1 [] k = caseA -> 2 [] k = caseB -> 3

\* the names as they stand in a document: "c\"" "caseA" "caseB"
QuotedName(k) ==
    CASE k = caseQ -> <<34, 99, 92, 34, 34>>
      [] k = caseA -> <<34, 99, 97, 115, 101, 65, 34>>
      [] k = caseB -> <<34, 99, 97, 115, 101, 66, 34>>

\* C1: a successful Write(v), v without ''', followed by Read on a store of
\* the same Path (and Name) returns exactly v, for both kinds of store.
RoundTrip ==
    /\ (wroteSuite /\ ~HasTriple(ret.input))
          => SuiteStorageRead(fs, tomlV1, ret.name, "none") = value(ret.input)
    /\ (ret.op = "SingleStorage.Write" /\ ret.err = nil /\ ~HasTriple(ret.input))
          => SingleStorageRead(fs, "none") = value(ret.input)

\* one step of a call, seen as a SuiteStorage.Write into a document
IsolationStep ==
    LET old == DecodeReader(fs.data, tomlV1)
    IN (ret'.op = "SuiteStorage.Write" /\ ret'.err = nil /\ fs.exists /\ old.ok)
          => \A a \in DOMAIN old.snapshots \ {ret'.name} :
                SuiteStorageRead(fs', tomlV1, a, "none") = value(old.snapshots[a])

\* C2: a successful SuiteStorage.Write with Name b into a well-formed
\* document leaves every other key a with its value, and Read with Name a
\* still returns it.
Isolation == [][IsolationStep]_vars

\* one step of a call, seen as a Read of something that is not there
NotFoundStep ==
    LET old == DecodeReader(fs.data, tomlV1)
    IN /\ (ret'.op = "SingleStorage.Read" /\ ~fs.exists)
             => Is(ret'.err, ErrFileNotFound) /\ ret'.data = <<>>
       /\ (/\ ret'.op = "SuiteStorage.Read"
           /\ ~fs.exists \/ (old.ok /\ ret'.name \notin DOMAIN old.snapshots))
             => Is(ret'.err, ErrFileNotFound) /\ ret'.data = <<>> /\ fs' = fs

\* C3: Read returns ErrFileNotFound and no data when the path of a
\* SingleStorage does not exist, when the file of a SuiteStorage does not
\* exist, and when it decodes but does not hold Name; the SuiteStorage Read
\* leaves the filesystem as it was.
NotFoundSemantics == [][NotFoundStep]_vars

\* a Read with Name caseA found the file, decoded it, and the name was not
\* among its keys: ErrFileNotFound
NotFoundWitness ==
    /\ ret.op = "SuiteStorage.Read" /\ ret.name = caseA
    /\ fs.exists /\ current.ok
    /\ DOMAIN current.snapshots = {caseB, caseQ}
    /\ ret.err = <<ErrFileNotFound>> /\ ret.data = <<>>

\* one step of a call, seen as a SuiteStorage.Read
DecodeVsAbsenceStep ==
    LET old == DecodeReader(fs.data, tomlV1)
    IN ret'.op = "SuiteStorage.Read" =>
          /\ (fs.exists /\ ~old.ok)
                => /\ ret'.err # nil /\ ret'.err[1] = "toml decode error"
                   /\ ~Is(ret'.err, ErrFileNotFound)
                   /\ ret'.data = <<>>
          /\ Is(ret'.err, ErrFileNotFound)
                => \/ ~fs.exists
                   \/ old.ok /\ ret'.name \notin DOMAIN old.snapshots

\* C4: Read of a file that exists and does not decode fails with a decode
\* error that is not ErrFileNotFound; Read returns ErrFileNotFound only
\* when the file is absent or decodes without the key.
DecodeVsAbsence == [][DecodeVsAbsenceStep]_vars

\* a Read found a file that does not decode
DecodeErrorWitness ==
    /\ ret.op = "SuiteStorage.Read"
    /\ fs.exists /\ ~current.ok
    /\ ret.err # nil /\ ret.err[1] = "toml decode error"

\* the indices of data at which pat begins
Occurrences(data, pat) ==
    {i \in 1..(Len(data) - Len(pat) + 1) :
        \A j \in 1..Len(pat) : data[i + j - 1] = pat[j]}

\* the beginning of the entry of key k: a new line, "k" = ''' and a newline
entryStart(k) == <<10>> \o QuotedName(k) \o <<32, 61, 32, 39, 39, 39, 10>>

\* one step of a call, seen as a SuiteStorage.Write: where its entries begin
KeysAscendingStep ==
    LET old == loaded(getSuiteData(fs, tomlV1, "none"))
        m == Put(old.data, ret'.name, ret'.input)
        at(k) == Occurrences(fs'.data, entryStart(k))
        new == DecodeReader(fs'.data, tomlV1)
    IN (ret'.op = "SuiteStorage.Write" /\ ret'.err = nil) =>
          /\ \A k \in DOMAIN m : Cardinality(at(k)) = 1
          /\ \A k1, k2 \in DOMAIN m :
                Rank(k1) < Rank(k2)
                   => \A i1 \in at(k1), i2 \in at(k2) : i1 < i2
          /\ new.ok => /\ Len(new.keys) = Cardinality(DOMAIN m)
                       /\ \A i \in 1..(Len(new.keys) - 1) :
                             Rank(new.keys[i]) < Rank(new.keys[i + 1])

\* C5: after a successful SuiteStorage.Write the entries of the file are in
\* strictly ascending order of key, each key of the document once.
KeysAscending == [][KeysAscendingStep]_vars

\* the smallest name was written last, into a document of three keys
KeysAscendingWitness ==
    /\ wroteSuite /\ ret.name = caseQ
    /\ current.ok /\ current.keys = <<caseQ, caseA, caseB>>

\* the orders in which the members of S can be taken
RECURSIVE Orders(_)
Orders(S) ==
    IF S = {} THEN {<<>>}
    ELSE UNION {{<<x>> \o o : o \in Orders(S \ {x})} : x \in S}

\* the filesystem after the keys of m are written in the given order
RECURSIVE WriteAll(_, _, _, _)
WriteAll(f, v1, m, order) ==
    IF order = <<>> THEN f
    ELSE LET k == Head(order)
             o == CHOOSE o \in SuiteStorageWrite(f, v1, k, m[k], "none") : TRUE
         IN WriteAll(o.fs, v1, m, Tail(order))

\* C6: a second Write of the same (k, v) leaves the bytes the first one
\* left, and the bytes of a document depend on its mapping alone, not on
\* the order in which its keys were written.
Idempotent ==
    wroteSuite =>
        /\ \A o \in SuiteStorageWrite(fs, tomlV1, ret.name, ret.input, "none") :
              o.fs = fs
        /\ current.ok =>
              \A order \in Orders(DOMAIN current.snapshots) :
                 WriteAll(noFile, tomlV1, current.snapshots, order) = fs

\* caseA was written into a document that holds two other keys by now
IdempotentWitness ==
    /\ wroteSuite /\ ret.name = caseA /\ ret.input = <<120>>
    /\ current.ok /\ DOMAIN current.snapshots = Names

\* one step of a call, seen as a SuiteStorage.Write: all or nothing
AtomicStep ==
    LET l == loaded(getSuiteData(fs, tomlV1, "none"))
    IN ret'.op = "SuiteStorage.Write" =>
          \/ fs'.exists = fs.exists /\ fs'.data = fs.data
          \/ /\ l.err = nil
             /\ fs'.exists
             /\ fs'.data = Buffered(Put(l.data, ret'.name, ret'.input))

\* C7: whenever SuiteStorage.Write returns, with or without an error, the
\* file holds the complete previous document or the complete new one.
AtomicWrite == [][AtomicStep]_vars

bothReturned == \A p \in Writers : w[p].pc = "done" /\ w[p].err = nil

\* C8: when the two Writes do not overlap and both succeed, the document
\* holds both keys with the values written; a document that lacks one of
\* them after two successful Writes is reachable, and only by overlapping.
SerializedWritesKeepBoth ==
    (bothReturned /\ \A p \in Writers : ~w[p].during) =>
        /\ fs.exists /\ current.ok
        /\ \A p \in Writers :
              /\ WriterName(p) \in DOMAIN current.snapshots
              /\ current.snapshots[WriterName(p)] = w[p].input

\* both Writes returned nil and the document lacks the key of one of them
LostUpdate ==
    /\ bothReturned
    /\ fs.exists /\ current.ok
    /\ \E p \in Writers : WriterName(p) \notin DOMAIN current.snapshots

\* the text of the document m as the format lays it out, for the names of
\* this model
ExpectedText(m) ==
    LET entry(k) ==
            IF k \in DOMAIN m
            THEN QuotedName(k) \o <<32, 61, 32, 39, 39, 39, 10>> \o m[k]
                    \o <<39, 39, 39, 10>>
            ELSE <<>>
    IN headerComment \o <<10>> \o headerTable \o <<10>>
          \o entry(caseQ) \o entry(caseA) \o entry(caseB)

\* "hello\nworld"
helloWorld == <<104, 101, 108, 108, 111, 10, 119, 111, 114, 108, 100>>

\* the file of the example: the header lines, then
\*   "caseA" = '''
\*   hello
\*   world'''
\*   "caseB" = '''
\*   x'''
exampleDocument ==
    headerComment \o <<10>> \o headerTable \o <<10>>
       \o <<34, 99, 97, 115, 101, 65, 34, 32, 61, 32, 39, 39, 39, 10,
            104, 101, 108, 108, 111, 10, 119, 111, 114, 108, 100, 39, 39, 39, 10,
            34, 99, 97, 115, 101, 66, 34, 32, 61, 32, 39, 39, 39, 10,
            120, 39, 39, 39, 10>>

\* one step of a call, seen as a SuiteStorage.Write: the text it leaves
EncodingFormatStep ==
    LET old == loaded(getSuiteData(fs, tomlV1, "none"))
    IN (ret'.op = "SuiteStorage.Write" /\ ret'.err = nil) =>
          /\ fs'.data = ExpectedText(Put(old.data, ret'.name, ret'.input))
          /\ (/\ wroteSuite /\ ret.name = caseA /\ ret.input = helloWorld
              /\ DOMAIN old.data = {caseA}
              /\ ret'.name = caseB /\ ret'.input = <<120>>)
                => fs'.data = exampleDocument

\* C9: after a successful SuiteStorage.Write the file is exactly the header
\* comment line, the [snapshots] line and, for each key of the resulting
\* mapping in ascending order, the quoted key, " = ", ''' and a newline,
\* the value as it is, ''' and a newline; caseA = "hello\nworld" and then
\* caseB = "x" give the file of the example.
EncodingFormat == [][EncodingFormatStep]_vars

\* caseB = "x" was written after caseA = "hello\nworld"
ExampleWitness ==
    /\ wroteSuite /\ ret.name = caseB /\ ret.input = <<120>>
    /\ fs.data = exampleDocument

\* one step of a call, seen as a SuiteStorage.Write: what it started from
MalformedKeptStep ==
    LET old == DecodeReader(fs.data, tomlV1)
    IN ret'.op = "SuiteStorage.Write" =>
          /\ (fs.exists /\ ~old.ok)
                => /\ ret'.err # nil /\ ~Is(ret'.err, ErrFileNotFound)
                   /\ fs' = fs
          /\ (/\ ret'.err # nil
              /\ ret'.err[1] \in {"failed to check file exist",
                                  "failed to open file", "toml decode error"})
                => fs' = fs
          /\ (ret'.err = nil /\ fs.exists)
                => /\ old.ok
                   /\ fs'.data =
                         ExpectedText(Put(old.snapshots, ret'.name, ret'.input))
          /\ (ret'.err = nil /\ ~fs.exists)
                => fs'.data =
                      ExpectedText(Put(newSuiteData, ret'.name, ret'.input))

\* C10: a SuiteStorage.Write that finds a file that does not decode, or
\* cannot check or open it, returns that error and leaves the filesystem
\* as it was; only a file that is absent makes it start from an empty
\* document.
MalformedKept == [][MalformedKeptStep]_vars

\* a Write found a file that does not decode and returned the decode error
MalformedWitness ==
    /\ ret.op = "SuiteStorage.Write"
    /\ ret.err # nil /\ ret.err[1] = "toml decode error"
    /\ ~Is(ret.err, ErrFileNotFound)
    /\ fs.exists /\ fs.data # <<>> /\ ~current.ok

====
